---- MODULE Spec2Model ----
(***************************************************************************)
(* Flag intersection tool: the pixel-wise AND of flag images               *)
(* (src/intersect.py), the calls its test suite makes                      *)
(* (src/test_intersect.py) and the command line driver (src/cli.py).       *)
(*                                                                         *)
(* An image is a record [width, height, data], data being the flat,        *)
(* row-major pixel list PIL's getdata() returns; data[y*width + x + 1] is  *)
(* the pixel at (x, y).  A pixel is the tuple <<r, g, b, a>>.              *)
(***************************************************************************)
EXTENDS Integers, Sequences, FiniteSets, TLC

\* ------------------------------------------------------------------ bounds
MaxW == 2
MaxH == 2
MaxArea == 2
MaxTol == 2
MaxFlags == 3

\* ------------------------------------------------------- program constants
WHITE == <<255, 255, 255, 255>>
TRANSPARENT == <<0, 0, 0, 0>>

\* ------------------------------------------------------------ input domain
\* Opaque black; an opaque colour at squared RGB distance 3 from it; black
\* with a different non-zero alpha; a fully transparent pixel that still
\* carries a colour.
Pixels == { <<0, 0, 0, 255>>, <<1, 1, 1, 255>>, <<0, 0, 0, 128>>, <<1, 1, 1, 0>> }

Sizes == { s \in (1..MaxW) \X (1..MaxH) : s[1] * s[2] <= MaxArea }

Images == UNION { [width : {s[1]}, height : {s[2]}, data : [1..(s[1] * s[2]) -> Pixels]]
                  : s \in Sizes }

\* Image.new("RGBA", size, colour): the single-colour images of the tests.
SolidImages == { [width |-> s[1], height |-> s[2], data |-> [i \in 1..(s[1] * s[2]) |-> p]]
                 : s \in Sizes, p \in Pixels }

Tolerances == 0..MaxTol

NoImage == [width |-> 0, height |-> 0, data |-> <<>>]

\* --------------------------------------------------------- PIL primitives
\* Image.new("RGBA", (w, h), color)
ImageNew(w, h, color) == [width |-> w, height |-> h, data |-> [i \in 1..(w * h) |-> color]]

\* The pixel of img at column x, row y (both from 0).
GetPixel(img, x, y) == img.data[y * img.width + x + 1]

\* canvas.paste(img, (0, 0)) without a mask: the source's four channels
\* overwrite the destination inside the source's box, and nothing else.
Paste(canvas, img) ==
    [canvas EXCEPT !.data =
        [i \in 1..(canvas.width * canvas.height) |->
            LET x == (i - 1) % canvas.width
                y == (i - 1) \div canvas.width
            IN  IF x < img.width /\ y < img.height
                THEN GetPixel(img, x, y)
                ELSE canvas.data[i]]]

\* Faulty variant: the first image's size alone.
Max2First(m, n) == m

Max2(m, n) == IF m >= n THEN m ELSE n

\* ------------------------------------------------------------ intersect.py
\* Faulty variant: alpha takes part in the distance.
rgb_distance_sq_alpha(pa, pb) ==
    (pa[1] - pb[1]) * (pa[1] - pb[1]) + (pa[2] - pb[2]) * (pa[2] - pb[2])
        + (pa[3] - pb[3]) * (pa[3] - pb[3]) + (pa[4] - pb[4]) * (pa[4] - pb[4])

rgb_distance_sq(pa, pb) ==
    (pa[1] - pb[1]) * (pa[1] - pb[1]) + (pa[2] - pb[2]) * (pa[2] - pb[2])
        + (pa[3] - pb[3]) * (pa[3] - pb[3])

\* Faulty variant: the fill policy is ignored.
FillAlwaysWhite(white_bg_) == WHITE

Fill(white_bg_) == IF white_bg_ THEN WHITE ELSE TRANSPARENT

\* Faulty variant: the blank canvas is opaque black.
CanvasOpaque(img, w, h) == Paste(ImageNew(w, h, <<0, 0, 0, 255>>), img)

\* The union canvas an input is placed on.
Canvas(img, w, h) == Paste(ImageNew(w, h, <<0, 0, 0, 0>>), img)

\* Faulty variants of the loop body: no coverage test; coverage of the first
\* canvas only; a strict comparison; a reversed comparison; Flag B's colour kept.
PixelDecisionNoAlpha(pa, pb, fill, threshold_sq) ==
    IF rgb_distance_sq(pa, pb) <= threshold_sq THEN pa ELSE fill

PixelDecisionOnlyA(pa, pb, fill, threshold_sq) ==
    IF pa[4] = 0
    THEN fill
    ELSE IF rgb_distance_sq(pa, pb) <= threshold_sq THEN pa ELSE fill

PixelDecisionStrict(pa, pb, fill, threshold_sq) ==
    IF pa[4] = 0 \/ pb[4] = 0
    THEN fill
    ELSE IF rgb_distance_sq(pa, pb) < threshold_sq THEN pa ELSE fill

PixelDecisionReversed(pa, pb, fill, threshold_sq) ==
    IF pa[4] = 0 \/ pb[4] = 0
    THEN fill
    ELSE IF rgb_distance_sq(pa, pb) >= threshold_sq THEN pa ELSE fill

PixelDecisionKeepB(pa, pb, fill, threshold_sq) ==
    IF pa[4] = 0 \/ pb[4] = 0
    THEN fill
    ELSE IF rgb_distance_sq(pa, pb) <= threshold_sq THEN pb ELSE fill

\* The body of the comparison loop, for one pair of canvas pixels.
PixelDecision(pa, pb, fill, threshold_sq) ==
    IF pa[4] = 0 \/ pb[4] = 0
    THEN fill
    ELSE IF rgb_distance_sq(pa, pb) <= threshold_sq
         THEN pa
         ELSE fill

intersect_flags(a, b, white_bg_, tolerance_) ==
    LET w == Max2(a.width, b.width)
        h == Max2(a.height, b.height)
        fill == Fill(white_bg_)
        threshold_sq == tolerance_ * tolerance_
        pixels_a == Canvas(a, w, h).data
        pixels_b == Canvas(b, w, h).data
        result_pixels == [i \in 1..(w * h) |->
                             PixelDecision(pixels_a[i], pixels_b[i], fill, threshold_sq)]
    IN  [width |-> w, height |-> h, data |-> result_pixels]

\* The branch of the comparison loop that keeps Flag A's colour.
Matched(pa, pb, threshold_sq) ==
    ~(pa[4] = 0 \/ pb[4] = 0) /\ rgb_distance_sq(pa, pb) <= threshold_sq

\* ---------------------------------------------- intersect_many (N-way rule)
MaxWidth(images) ==
    CHOOSE m \in {images[i].width : i \in DOMAIN images} :
        \A i \in DOMAIN images : images[i].width <= m

MaxHeight(images) ==
    CHOOSE m \in {images[i].height : i \in DOMAIN images} :
        \A i \in DOMAIN images : images[i].height <= m

\* One coordinate of the N-way rule: ps[k] is the k-th canvas' pixel there.
ManyDecision(ps, fill, threshold_sq) ==
    IF \E k \in DOMAIN ps : ps[k][4] = 0
    THEN fill
    ELSE IF \A k \in 2..Len(ps) : rgb_distance_sq(ps[1], ps[k]) <= threshold_sq
         THEN ps[1]
         ELSE fill

Ok(img) == [status |-> "ok", img |-> img]
ValueError == [status |-> "ValueError", img |-> NoImage]
NoResult == [status |-> "none", img |-> NoImage]

intersect_many(images, white_bg_, tolerance_) ==
    IF Len(images) < 2
    THEN ValueError
    ELSE LET w == MaxWidth(images)
             h == MaxHeight(images)
             fill == Fill(white_bg_)
             threshold_sq == tolerance_ * tolerance_
             canvases == [k \in DOMAIN images |-> Canvas(images[k], w, h)]
             result_pixels == [i \in 1..(w * h) |->
                 ManyDecision([k \in DOMAIN images |-> canvases[k].data[i]],
                              fill, threshold_sq)]
         IN  Ok([width |-> w, height |-> h, data |-> result_pixels])

\* The N-way match decision at one coordinate: every canvas covers it and
\* every image is within the tolerance of the first.
ManyMatched(ps, threshold_sq) ==
    /\ \A k \in DOMAIN ps : ps[k][4] # 0
    /\ \A k \in 2..Len(ps) : rgb_distance_sq(ps[1], ps[k]) <= threshold_sq

\* The number of canvas coordinates at which the decision is "match".
MatchCount(imgs, tolerance_) ==
    LET w == MaxWidth(imgs)
        h == MaxHeight(imgs)
        canvases == [k \in DOMAIN imgs |-> Canvas(imgs[k], w, h)]
    IN  Cardinality({i \in 1..(w * h) :
            ManyMatched([k \in DOMAIN imgs |-> canvases[k].data[i]],
                        tolerance_ * tolerance_)})

\* sum(1 for p in result.getdata() if p[3] > 0)
Kept(img) == Cardinality({i \in DOMAIN img.data : img.data[i][4] > 0})

\* ------------------------------------------------------------------- state
\* The test suite: the inputs of one test, which test ran (op) and what its
\* calls returned.
VARIABLES img_a, img_b, img_c, white_bg, tolerance, tolerance2, op, out1, out2

\* One run of cli.py: args.flags, the position in main (pc), how many paths
\* the validation loop has passed, fmt, the images loaded so far, the
\* intersection, the output directory and file, the printed statistics and
\* the exit status (-1 while the process runs).
VARIABLES pc, flags, checked, fmt, images, result, out_dir, out_file, stats, exit_code

test_vars == <<img_a, img_b, img_c, tolerance2, op, out1, out2>>

cli_vars == <<pc, flags, checked, fmt, images, result, out_dir, out_file, stats, exit_code>>

vars == <<img_a, img_b, img_c, white_bg, tolerance, tolerance2, op, out1, out2,
          pc, flags, checked, fmt, images, result, out_dir, out_file, stats, exit_code>>

inputs == <<img_a, img_b, white_bg, tolerance>>

NoFile == [format |-> "", mode |-> "", img |-> NoImage]

NoStats == [kept |-> -1, total |-> -1, pct10 |-> -1]

\* f"{100 * kept / total:.1f}", in tenths of a percent.
Pct10(kept, total) == (2000 * kept + total) \div (2 * total)

\* No command line run is in progress.
CliIdle ==
    /\ pc = "idle"
    /\ flags = <<>>
    /\ checked = 0
    /\ fmt = ""
    /\ images = <<>>
    /\ result = NoResult
    /\ out_dir = FALSE
    /\ out_file = NoFile
    /\ stats = NoStats
    /\ exit_code = -1

Init ==
    /\ img_a \in Images
    /\ img_b \in Images
    /\ img_c = NoImage
    /\ white_bg \in BOOLEAN
    /\ tolerance \in Tolerances
    /\ tolerance2 = tolerance
    /\ op = "none"
    /\ out1 = NoResult
    /\ out2 = NoResult
    /\ CliIdle

\* ------------------------------------------- the calls the test suite makes
\* result = intersect_flags(img_a, img_b, ...)
TestIntersectFlags ==
    /\ pc = "idle"
    /\ op = "none"
    /\ op' = "flags"
    /\ out1' = Ok(intersect_flags(img_a, img_b, white_bg, tolerance))
    /\ UNCHANGED <<inputs, img_c, tolerance2, out2>>
    /\ UNCHANGED cli_vars

\* intersect_flags up to pixels_a, pixels_b: the two inputs placed on their
\* canvases, before the comparison loop.
PlaceOnCanvas ==
    /\ pc = "idle"
    /\ op = "none"
    /\ op' = "canvas"
    /\ LET w == Max2(img_a.width, img_b.width)
           h == Max2(img_a.height, img_b.height)
       IN  /\ out1' = Ok(Canvas(img_a, w, h))
           /\ out2' = Ok(Canvas(img_b, w, h))
    /\ UNCHANGED <<inputs, img_c, tolerance2>>
    /\ UNCHANGED cli_vars

\* result = intersect_flags(img, img)
TestIdenticalFlags ==
    /\ pc = "idle"
    /\ op = "none"
    /\ op' = "self"
    /\ out1' = Ok(intersect_flags(img_a, img_a, white_bg, tolerance))
    /\ UNCHANGED <<inputs, img_c, tolerance2, out2>>
    /\ UNCHANGED cli_vars

\* intersect_flags(a, b) and intersect_flags(b, a) on the same inputs
IntersectBothOrders ==
    /\ pc = "idle"
    /\ op = "none"
    /\ op' = "swapped"
    /\ out1' = Ok(intersect_flags(img_a, img_b, white_bg, tolerance))
    /\ out2' = Ok(intersect_flags(img_b, img_a, white_bg, tolerance))
    /\ UNCHANGED <<inputs, img_c, tolerance2>>
    /\ UNCHANGED cli_vars

\* result_strict, result_loose
TestMoreMatchWithHigherTolerance ==
    /\ pc = "idle"
    /\ op = "none"
    /\ \E t2 \in Tolerances :
          /\ tolerance <= t2
          /\ tolerance2' = t2
          /\ out2' = Ok(intersect_flags(img_a, img_b, white_bg, t2))
    /\ op' = "loose"
    /\ out1' = Ok(intersect_flags(img_a, img_b, white_bg, tolerance))
    /\ UNCHANGED <<inputs, img_c>>
    /\ UNCHANGED cli_vars

\* result_pair, result_many
TestIntersectManyTwoFlags ==
    /\ pc = "idle"
    /\ op = "none"
    /\ op' = "many2"
    /\ out1' = Ok(intersect_flags(img_a, img_b, white_bg, tolerance))
    /\ out2' = intersect_many(<<img_a, img_b>>, white_bg, tolerance)
    /\ UNCHANGED <<inputs, img_c, tolerance2>>
    /\ UNCHANGED cli_vars

\* result_two, result_three
TestIntersectManyThreeFlagsDecreasing ==
    /\ pc = "idle"
    /\ op = "none"
    /\ img_c # NoImage
    /\ op' = "many3"
    /\ out1' = intersect_many(<<img_a, img_b>>, white_bg, tolerance)
    /\ out2' = intersect_many(<<img_a, img_b, img_c>>, white_bg, tolerance)
    /\ UNCHANGED <<inputs, img_c, tolerance2>>
    /\ UNCHANGED cli_vars

\* intersect_many([img])
TestIntersectManyRequiresAtLeastTwo ==
    /\ pc = "idle"
    /\ op = "none"
    /\ op' = "many1"
    /\ out1' = intersect_many(<<img_a>>, white_bg, tolerance)
    /\ UNCHANGED <<inputs, img_c, tolerance2, out2>>
    /\ UNCHANGED cli_vars

Next ==
    \/ TestIntersectFlags
    \/ PlaceOnCanvas
    \/ TestIdenticalFlags
    \/ IntersectBothOrders
    \/ TestMoreMatchWithHigherTolerance
    \/ TestIntersectManyTwoFlags
    \/ TestIntersectManyRequiresAtLeastTwo

Spec == Init /\ [][Next]_vars

\* ------------------------------------------------ three-image intersections
InitMany ==
    /\ img_a \in Images
    /\ img_b \in SolidImages
    /\ img_c \in SolidImages
    /\ white_bg \in BOOLEAN
    /\ tolerance \in Tolerances
    /\ tolerance2 = tolerance
    /\ op = "none"
    /\ out1 = NoResult
    /\ out2 = NoResult
    /\ CliIdle

NextMany ==
    \/ TestIntersectManyThreeFlagsDecreasing
    \/ TestIntersectManyTwoFlags

SpecMany == InitMany /\ [][NextMany]_vars

\* ------------------------------------------------------------ save_result
\* PIL's 8-bit multiply: (a * b) / 255, rounded.
MulDiv255(m, n) == LET t == m * n + 128 IN ((t \div 256) + t) \div 256

\* background.paste(img, mask=alpha) on a white background, then
\* convert("RGB"): every colour channel is blended with white by the alpha.
Flatten(img) ==
    [img EXCEPT !.data =
        [i \in DOMAIN img.data |->
            LET p == img.data[i]
            IN  [ch \in 1..3 |-> MulDiv255(255, 255 - p[4]) + MulDiv255(p[ch], p[4])]]]

FlattenedFormats == {"BMP", "JPEG", "JPG"}

AlphaFormats == {"PNG"}

\* What save_result leaves at output_path; an unknown format makes img.save
\* raise before the file is opened.
SavedFile(img, fmt_) ==
    IF fmt_ \in FlattenedFormats
    THEN [format |-> IF fmt_ # "JPG" THEN fmt_ ELSE "JPEG", mode |-> "RGB",
          img |-> Flatten(img)]
    ELSE IF fmt_ \in AlphaFormats
         THEN [format |-> fmt_, mode |-> "RGBA", img |-> img]
         ELSE NoFile

\* ------------------------------------------------------------------ cli.py
\* The flag files of a run: two opaque colours, every size.
CliPixels == { <<0, 0, 0, 255>>, <<1, 1, 1, 255>> }

CliImages == { [width |-> s[1], height |-> s[2], data |-> [i \in 1..(s[1] * s[2]) |-> p]]
               : s \in Sizes, p \in CliPixels }

\* What a path of args.flags names: nothing, a directory, a file that is no
\* image, or an image file.
Entries == { [kind |-> k, img |-> NoImage] : k \in {"missing", "dir", "corrupt"} }
           \cup { [kind |-> "image", img |-> im] : im \in CliImages }

FlagLists == UNION { [1..n -> Entries] : n \in 0..MaxFlags }

\* The suffix of the output path, upper-cased; the empty suffix becomes PNG.
Formats == {"PNG", "BMP", "JPG", "TXT"}

\* Faulty variant: a single flag is accepted.
TooFewFlagsNone(n) == n < 1

\* parse_args with nargs="+", then len(args.flags) < 2
TooFewFlags(n) == n < 2

\* Faulty variant: a directory passes validation.
PathInvalidNoFileCheck(entry) == entry.kind = "missing"

\* not path.exists() or not path.is_file()
PathInvalid(entry) == entry.kind = "missing" \/ entry.kind = "dir"

\* One started process.
InitCli ==
    /\ img_b = NoImage
    /\ img_c = NoImage
    /\ white_bg \in BOOLEAN
    /\ tolerance \in Tolerances
    /\ tolerance2 = tolerance
    /\ op = "none"
    /\ out1 = NoResult
    /\ out2 = NoResult
    /\ \/ /\ img_a = NoImage
          /\ pc = "parse"
          /\ flags \in FlagLists
          /\ checked = 0
          /\ fmt = ""
          /\ images = <<>>
          /\ result = NoResult
          /\ out_dir = FALSE
          /\ out_file = NoFile
          /\ stats = NoStats
          /\ exit_code = -1
       \/ /\ img_a = ImageNew(1, 1, <<0, 0, 0, 0>>)
          /\ CliIdle

Exit(code) ==
    /\ pc' = "done"
    /\ exit_code' = code

\* args = parser.parse_args(); fewer than 2 flags is a parser error (status 2).
ParseArgs ==
    /\ pc = "parse"
    /\ IF TooFewFlags(Len(flags))
       THEN Exit(2)
       ELSE pc' = "validate" /\ UNCHANGED exit_code
    /\ UNCHANGED <<inputs, test_vars, flags, checked, fmt, images, result, out_dir,
                   out_file, stats>>

\* One turn of the validation loop.
ValidatePath ==
    /\ pc = "validate"
    /\ checked < Len(flags)
    /\ IF PathInvalid(flags[checked + 1])
       THEN Exit(1) /\ UNCHANGED checked
       ELSE checked' = checked + 1 /\ UNCHANGED <<pc, exit_code>>
    /\ UNCHANGED <<inputs, test_vars, flags, fmt, images, result, out_dir, out_file,
                   stats>>

\* Determine output path & format.
DeriveOutput ==
    /\ pc = "validate"
    /\ checked = Len(flags)
    /\ fmt' \in Formats
    /\ pc' = "load"
    /\ UNCHANGED <<inputs, test_vars, flags, checked, images, result, out_dir,
                   out_file, stats, exit_code>>

\* One element of [load_flag(p) for p in args.flags]; a path that does not
\* open as an image raises, which ends the process with status 1.
LoadFlag ==
    /\ pc = "load"
    /\ Len(images) < Len(flags)
    /\ LET entry == flags[Len(images) + 1]
       IN  IF entry.kind = "image"
           THEN images' = Append(images, entry.img) /\ UNCHANGED <<pc, exit_code>>
           ELSE Exit(1) /\ UNCHANGED images
    /\ UNCHANGED <<inputs, test_vars, flags, checked, fmt, result, out_dir, out_file,
                   stats>>

\* result = intersect_many(images, white_bg=..., tolerance=...)
ComputeIntersection ==
    /\ pc = "load"
    /\ Len(images) = Len(flags)
    /\ result' = intersect_many(images, white_bg, tolerance)
    /\ IF result'.status = "ok"
       THEN pc' = "save" /\ UNCHANGED exit_code
       ELSE Exit(1)
    /\ UNCHANGED <<inputs, test_vars, flags, checked, fmt, images, out_dir, out_file,
                   stats>>

\* save_result(result, output_path, fmt): mkdir, then img.save.
SaveResult ==
    /\ pc = "save"
    /\ out_dir' = TRUE
    /\ out_file' = SavedFile(result.img, fmt)
    /\ IF out_file' = NoFile
       THEN Exit(1)
       ELSE pc' = "stats" /\ UNCHANGED exit_code
    /\ UNCHANGED <<inputs, test_vars, flags, checked, fmt, images, result, stats>>

\* Quick stats, and the end of main.
PrintStats ==
    /\ pc = "stats"
    /\ LET total_pixels == result.img.width * result.img.height
           kept == Kept(result.img)
       IN  stats' = [kept |-> kept, total |-> total_pixels,
                     pct10 |-> Pct10(kept, total_pixels)]
    /\ Exit(0)
    /\ UNCHANGED <<inputs, test_vars, flags, checked, fmt, images, result, out_dir,
                   out_file>>

NextCli ==
    \/ ParseArgs
    \/ ValidatePath
    \/ DeriveOutput
    \/ LoadFlag
    \/ ComputeIntersection
    \/ SaveResult
    \/ PrintStats
    \/ TestIntersectManyRequiresAtLeastTwo

SpecCli == InitCli /\ [][NextCli]_vars

\* ================================================================== claims
\* What the statements below read off the inputs and outputs, written out
\* independently of the operators of the model.
FillPixel == IF white_bg THEN <<255, 255, 255, 255>> ELSE <<0, 0, 0, 0>>

Larger(m, n) == IF m < n THEN n ELSE m

\* The pixel of a raster at column x, row y.
At(img, x, y) == img.data[y * img.width + x + 1]

Covers(img, x, y) == x < img.width /\ y < img.height

Coords(w, h) == (0..(w - 1)) \X (0..(h - 1))

SqDistRGB(p, q) ==
    (p[1] - q[1]) * (p[1] - q[1]) + (p[2] - q[2]) * (p[2] - q[2])
        + (p[3] - q[3]) * (p[3] - q[3])

\* The coordinates (flat indices) of a result that carry a kept colour.  No
\* pixel of the input domain equals either fill pixel.
MatchSet(img) == {i \in DOMAIN img.data : img.data[i] # FillPixel}

AlphaCount(img) == Cardinality({i \in DOMAIN img.data : img.data[i][4] > 0})

\* C1: where both inputs have a pixel of non-zero alpha, intersect_flags
\* emits the first image's RGBA pixel iff the squared RGB distance is at most
\* tolerance squared, and the fill pixel otherwise; alpha is not compared.
C1_ToleranceDecision ==
    op = "flags" =>
        \A c \in Coords(out1.img.width, out1.img.height) :
            (/\ Covers(img_a, c[1], c[2])
             /\ Covers(img_b, c[1], c[2])
             /\ At(img_a, c[1], c[2])[4] # 0
             /\ At(img_b, c[1], c[2])[4] # 0)
            => LET pa == At(img_a, c[1], c[2])
                   pb == At(img_b, c[1], c[2])
               IN  IF SqDistRGB(pa, pb) <= tolerance * tolerance
                   THEN At(out1.img, c[1], c[2]) = pa
                   ELSE At(out1.img, c[1], c[2]) = FillPixel

\* At tolerance 0 two pixels of equal RGB and different non-zero alpha match,
\* and the first image's alpha is emitted.
C1_Witness ==
    /\ op = "flags"
    /\ tolerance = 0
    /\ \E c \in Coords(out1.img.width, out1.img.height) :
          /\ Covers(img_a, c[1], c[2])
          /\ Covers(img_b, c[1], c[2])
          /\ At(img_a, c[1], c[2]) = <<0, 0, 0, 128>>
          /\ At(img_b, c[1], c[2]) = <<0, 0, 0, 255>>
          /\ At(out1.img, c[1], c[2]) = <<0, 0, 0, 128>>

\* C2: the returned raster is as wide as the widest input and as high as the
\* highest input, and holds exactly width * height pixels.
C2_UnionCanvasSize ==
    op = "flags" =>
        /\ out1.status = "ok"
        /\ out1.img.width = Larger(img_a.width, img_b.width)
        /\ out1.img.height = Larger(img_a.height, img_b.height)
        /\ DOMAIN out1.img.data = 1..(out1.img.width * out1.img.height)

\* Each input is smaller than the union box in one direction.
C2_Witness ==
    /\ op = "flags"
    /\ img_a.width < img_b.width
    /\ img_a.height > img_b.height
    /\ out1.img.width = img_b.width
    /\ out1.img.height = img_a.height

\* C3: a canvas coordinate outside the native bounds of at least one input
\* carries the fill pixel, whatever the tolerance and the other input's colour.
C3_OutOfBoundsIsFill ==
    op = "flags" =>
        \A c \in Coords(out1.img.width, out1.img.height) :
            (~Covers(img_a, c[1], c[2]) \/ ~Covers(img_b, c[1], c[2]))
            => At(out1.img, c[1], c[2]) = FillPixel

\* The widest tolerance, an opaque black pixel of the first image where the
\* second image does not reach: black is at distance 0 from the blank canvas.
C3_Witness ==
    /\ op = "flags"
    /\ tolerance = MaxTol
    /\ \E c \in Coords(out1.img.width, out1.img.height) :
          /\ Covers(img_a, c[1], c[2])
          /\ ~Covers(img_b, c[1], c[2])
          /\ At(img_a, c[1], c[2]) = <<0, 0, 0, 255>>
          /\ At(out1.img, c[1], c[2]) = FillPixel

C5_PairEqualsMany ==
    op = "many2" =>
        /\ out1.status = "ok"
        /\ out2.status = "ok"
        /\ out2.img = out1.img

\* Inputs of different sizes, a kept pixel whose two sources differ, and a
\* pixel replaced by the fill.
C5_Witness ==
    /\ op = "many2"
    /\ img_a.width # img_b.width
    /\ out2.img = out1.img
    /\ \E i \in DOMAIN img_a.data :
          /\ i \in DOMAIN img_b.data
          /\ img_a.data[i] = <<0, 0, 0, 128>>
          /\ img_b.data[i] = <<1, 1, 1, 255>>
    /\ MatchSet(out2.img) # {}
    /\ MatchSet(out2.img) # DOMAIN out2.img.data

\* C6: for tolerances t1 <= t2 the result at t1 has at most as many pixels of
\* alpha > 0 as the result at t2, and every coordinate kept at t1 is kept at t2.
C6_MonotoneInTolerance ==
    op = "loose" =>
        /\ tolerance <= tolerance2
        /\ AlphaCount(out1.img) <= AlphaCount(out2.img)
        /\ MatchSet(out1.img) \subseteq MatchSet(out2.img)
        /\ \A i \in MatchSet(out1.img) : out2.img.data[i] = out1.img.data[i]

\* The looser tolerance keeps strictly more pixels.
C6_Witness ==
    /\ op = "loose"
    /\ ~white_bg
    /\ tolerance < tolerance2
    /\ AlphaCount(out1.img) > 0
    /\ AlphaCount(out1.img) < AlphaCount(out2.img)

\* C7 as stated: the three-way intersection never has more pixels of
\* alpha > 0 than the two-way intersection of its first two images.
C7_AlphaCountNeverGrows ==
    op = "many3" => AlphaCount(out2.img) <= AlphaCount(out1.img)

\* C7, amended: under the transparent fill policy the N-way intersection
\* never has more pixels of alpha > 0 than the (N-1)-way one; under either
\* fill policy every coordinate that keeps a colour in the N-way result lies
\* on the (N-1)-way canvas and keeps the same colour there.
C7_MonotoneInInputCount ==
    op = "many3" =>
        /\ out1.status = "ok"
        /\ out2.status = "ok"
        /\ ~white_bg => AlphaCount(out2.img) <= AlphaCount(out1.img)
        /\ \A c \in Coords(out2.img.width, out2.img.height) :
              At(out2.img, c[1], c[2]) # FillPixel
              => /\ Covers(out1.img, c[1], c[2])
                 /\ At(out1.img, c[1], c[2]) = At(out2.img, c[1], c[2])

\* The third image removes one kept pixel and leaves another.
C7_Witness ==
    /\ op = "many3"
    /\ ~white_bg
    /\ AlphaCount(out2.img) > 0
    /\ AlphaCount(out2.img) < AlphaCount(out1.img)

\* C8: at tolerance 0, intersect(a, b) and intersect(b, a) keep a colour at
\* the same set of canvas coordinates.
C8_SymmetricMatchSet ==
    (op = "swapped" /\ tolerance = 0) =>
        /\ out1.img.width = out2.img.width
        /\ out1.img.height = out2.img.height
        /\ MatchSet(out1.img) = MatchSet(out2.img)

\* The two orders keep different colours at the same coordinates, and the
\* inputs differ in size.
C8_Witness ==
    /\ op = "swapped"
    /\ tolerance = 0
    /\ img_a.width # img_b.width
    /\ MatchSet(out1.img) # {}
    /\ out1.img # out2.img

\* Nothing of the engine has run and nothing has been written.
NothingProduced ==
    /\ images = <<>>
    /\ result = [status |-> "none", img |-> [width |-> 0, height |-> 0, data |-> <<>>]]
    /\ out_dir = FALSE
    /\ out_file.format = ""
    /\ stats.total = -1

\* C9: a request to intersect fewer than 2 images is rejected (ValueError
\* from intersect_many, exit status 2 from the command line's parser) and
\* leaves no image loaded, no raster, no output directory and no output file.
C9_TooFewImagesRejected ==
    /\ op = "many1" =>
          /\ out1.status = "ValueError"
          /\ out1.img.width = 0
          /\ out1.img.data = <<>>
    /\ (pc \notin {"idle", "parse"} /\ Len(flags) < 2) =>
          /\ pc = "done"
          /\ exit_code = 2
          /\ NothingProduced

\* The command line was given one flag, an image file that exists.
C9_Witness ==
    /\ pc = "done"
    /\ Len(flags) = 1
    /\ flags[1].kind = "image"
    /\ exit_code = 2

SomePathInvalid ==
    \E i \in DOMAIN flags : flags[i].kind \in {"missing", "dir"}

\* C10: in a run with a path that does not exist or is no regular file,
\* nothing is ever loaded, computed or written and the process ends with a
\* non-zero status; in every run the output directory and file are written
\* only after every flag is loaded and the intersection of all of them is
\* computed, and a written file holds the whole result raster.
C10_ValidationBeforeEngineWork ==
    /\ SomePathInvalid =>
          /\ NothingProduced
          /\ exit_code # 0
          /\ pc = "done" => exit_code \in {1, 2}
    /\ (out_dir \/ out_file.format # "") =>
          /\ Len(images) = Len(flags)
          /\ Len(images) >= 2
          /\ \A i \in DOMAIN flags : flags[i].kind = "image" /\ images[i] = flags[i].img
          /\ result.status = "ok"
          /\ pc \in {"stats", "done"}
    /\ out_file.format # "" =>
          /\ out_dir
          /\ out_file.img.width = result.img.width
          /\ out_file.img.height = result.img.height
          /\ DOMAIN out_file.img.data = 1..(result.img.width * result.img.height)
          /\ out_file.mode = "RGBA" => out_file.img = result.img
    /\ exit_code = 0 => out_file.format # ""

\* The first path names an image, a later one a directory: the run has ended
\* with status 1 after validating the first path.
C10_Witness ==
    /\ pc = "done"
    /\ Len(flags) >= 2
    /\ flags[1].kind = "image"
    /\ flags[Len(flags)].kind = "dir"
    /\ checked >= 1
    /\ exit_code = 1

\* C11: under both fill policies the number the command line reports as
\* matched equals the number of canvas coordinates whose decision was
\* "match", the reported total is the output's pixel count and the reported
\* percentage is the first over the second.
C11_ReportedMatchesAreMatches ==
    (pc = "done" /\ exit_code = 0) =>
        LET matches == MatchCount(images, tolerance)
            pixels == result.img.width * result.img.height
        IN  /\ stats.kept = matches
            /\ stats.total = pixels
            /\ 2 * pixels * stats.pct10 <= 2000 * matches + pixels
            /\ 2000 * matches + pixels < 2 * pixels * (stats.pct10 + 1)

\* The canvas of input img is as large as the union box and holds the
\* input's own pixels, unchanged, at offset (0, 0).
PlacedUnchanged(canvas, img) ==
    /\ canvas.width = Larger(img_a.width, img_b.width)
    /\ canvas.height = Larger(img_a.height, img_b.height)
    /\ DOMAIN canvas.data = 1..(canvas.width * canvas.height)
    /\ \A c \in Coords(canvas.width, canvas.height) :
          Covers(img, c[1], c[2]) => At(canvas, c[1], c[2]) = At(img, c[1], c[2])

====
